---- MODULE Spec2Model ----
(***************************************************************************)
(* State-machine model of pdf_compressor.compress_pdf                       *)
(* (src/pdf_compressor/__init__.py): one run of the tiered compression      *)
(* pipeline with its size-driven, at-most-two-attempt escalation.           *)
(*                                                                          *)
(* The external collaborators (the magick process, PIL's decode/encode,     *)
(* img2pdf and the file system) are modelled by their observable outcomes:  *)
(* each call either fails or succeeds, and the byte size of what it writes  *)
(* is chosen from a small set.  The history variables rasterLog,            *)
(* compressLog, assembleLog and measureLog record the calls made, as a      *)
(* mock of the collaborators would.                                         *)
(***************************************************************************)
EXTENDS Integers, Sequences, FiniteSets, TLC

\* ---------------------------------------------------------------- bounds
MaxPages == 3          \* documents have 0..MaxPages pages
NegImportant == 1      \* important_pages ranges from -NegImportant

\* ------------------------------------------------------ program constants
first_page_quality == 85
remaining_quality == 25
first_page_dpi == 200
remaining_dpi == 35
ExtremeQuality == 15
BytesPerMB == 1048576

\* ------------------------------------------------------------ input sets
PageCounts == 0..MaxPages
ImportantPagesSet == (0 - NegImportant)..(MaxPages + 1)
\* sizes in MB are exact rationals num/den (a byte count divided by 2^20 is
\* exact in binary floating point)
TargetSizes == {[num |-> 1, den |-> 1], [num |-> 9, den |-> 2]}
\* byte sizes an encoded page image can have
ImageBytes == {BytesPerMB \div 2, 3 * BytesPerMB}

VARIABLES
    inputExists,      \* os.path.exists(input_path)
    depsOk,           \* outcome of the `magick --version` probe
    total_pages,      \* len(reader.pages)
    important_pages,  \* parameter
    target_size_mb,   \* parameter, a rational
    samePath,         \* output_path names the same file as input_path
    exit_code,        \* exit status of the command-line process, or NoExit
    pc,               \* position in compress_pdf
    temp_dir,         \* TRUE while the TemporaryDirectory exists
    tempCreated,      \* history: the TemporaryDirectory was created
    files,            \* files in temp_dir: path -> content
    outFile,          \* the file at output_path
    tier,             \* which convert_pdf_to_images call is running (1, 2)
    i,                \* loop variable of convert_pdf_to_images
    end_page,         \* end_page of the running convert_pdf_to_images call
    images,           \* `images` of the running convert_pdf_to_images call
    first_pages,
    remaining_pages,
    all_images,
    extreme_images,
    pass,             \* 1: first reassembly, 2: reassembly of the extreme pass
    final_size,       \* rational, or NoSize
    result,           \* value returned by compress_pdf
    error,            \* exception raised out of compress_pdf
    rasterLog,        \* history: magick invocations
    compressLog,      \* history: compress_image calls
    assembleLog,      \* history: arguments of img2pdf.convert
    outOpens,         \* history: number of open(output_path, 'wb') calls
    measureLog        \* history: os.path.getsize results

vars == <<inputExists, depsOk, total_pages, important_pages, target_size_mb,
          samePath, exit_code,
          pc, temp_dir, tempCreated, files, outFile, tier, i, end_page,
          images, first_pages, remaining_pages, all_images, extreme_images,
          pass, final_size, result, error, rasterLog, compressLog,
          assembleLog, outOpens, measureLog>>

inputsV == <<inputExists, depsOk, total_pages, important_pages, target_size_mb,
             samePath>>
cliV == <<exit_code>>
logsV == <<rasterLog, compressLog, assembleLog, outOpens, measureLog>>
loopV == <<tier, i, end_page, images>>
listsV == <<first_pages, remaining_pages, all_images, extreme_images>>

\* ------------------------------------------------------------- helpers
Min(a, b) == IF a <= b THEN a ELSE b

NoPage == 0 - 99
NoPath == <<>>
NoExit == 0 - 1
NoSize == [num |-> 0 - 1, den |-> 1]
NoResult == [returned |-> FALSE, success |-> FALSE, final_size |-> NoSize]
NoError == [kind |-> "none", msg |-> "none", page |-> NoPage, path |-> NoPath]
EmptyFiles == [p \in {} |-> 0]

\* a <= b on rationals with positive denominators
LeqMB(a, b) == a.num * b.den <= b.num * a.den

\* os.path.join(output_dir, f'page_{i}.jpg')
PagePath(n) == <<"page_", n, ".jpg">>
PageOf(p) == p[2]

\* os.path.getsize(output_path) / (1024 * 1024)
SizeMB(bytes) == [num |-> bytes, den |-> BytesPerMB]

RECURSIVE SumBytes(_)
SumBytes(s) == IF s = <<>> THEN 0 ELSE Head(s).bytes + SumBytes(Tail(s))

AbsentFile == [kind |-> "absent", pages |-> <<>>, bytes |-> 0]
OldFile == [kind |-> "old", pages |-> <<>>, bytes |-> 7 * BytesPerMB]
TruncatedFile == [kind |-> "empty", pages |-> <<>>, bytes |-> 0]
\* the input document, as a file
InputFile == [kind |-> "input", pages |-> <<>>, bytes |-> 9 * BytesPerMB]

\* img2pdf.convert(paths): one page per image, in the given order, from the
\* current contents of the files
Img2PdfConvert(paths) ==
    LET pgs == [j \in 1..Len(paths) |-> files[paths[j]]]
    IN [kind |-> "pdf", pages |-> pgs, bytes |-> SumBytes(pgs)]

\* variant: the directory is removed on the normal path only
ExitTempDirOnSuccessOnly ==
    /\ temp_dir' = (error # NoError)
    /\ files' = IF error = NoError THEN EmptyFiles ELSE files
\* leaving the `with tempfile.TemporaryDirectory()` block
ExitTempDir == /\ temp_dir' = FALSE
               /\ files' = EmptyFiles

CompressionError(m, pg, pth) ==
    [kind |-> "CompressionError", msg |-> m, page |-> pg, path |-> pth]

Init ==
    /\ inputExists \in BOOLEAN
    /\ depsOk \in BOOLEAN
    /\ total_pages \in PageCounts
    /\ important_pages \in ImportantPagesSet
    /\ target_size_mb \in TargetSizes
    /\ pc = "start"
    /\ temp_dir = FALSE
    /\ tempCreated = FALSE
    /\ files = EmptyFiles
    /\ samePath \in BOOLEAN
    /\ outFile \in IF samePath
                   THEN {IF inputExists THEN InputFile ELSE AbsentFile}
                   ELSE {AbsentFile, OldFile}
    /\ exit_code = NoExit
    /\ tier = 0
    /\ i = 0
    /\ end_page = 0
    /\ images = <<>>
    /\ first_pages = <<>>
    /\ remaining_pages = <<>>
    /\ all_images = <<>>
    /\ extreme_images = <<>>
    /\ pass = 0
    /\ final_size = NoSize
    /\ result = NoResult
    /\ error = NoError
    /\ rasterLog = <<>>
    /\ compressLog = <<>>
    /\ assembleLog = <<>>
    /\ outOpens = 0
    /\ measureLog = <<>>

\* lines 127-128
CheckInputPath ==
    /\ pc = "start"
    /\ IF ~inputExists
       THEN /\ error' = [kind |-> "FileNotFoundError", msg |-> "input_not_found",
                         page |-> NoPage, path |-> NoPath]
            /\ pc' = "failed"
       ELSE /\ pc' = "check_deps"
            /\ UNCHANGED error
    /\ UNCHANGED <<inputsV, cliV, temp_dir, tempCreated, files, outFile, loopV,
                   listsV, pass, final_size, result, logsV>>

\* variant: the probe's outcome is ignored
check_dependencies_ignored == TRUE
\* lines 21-32: the probe's outcome is an input of the run
check_dependencies == depsOk

\* lines 130-131
CheckDependencies ==
    /\ pc = "check_deps"
    /\ IF ~check_dependencies
       THEN /\ error' = CompressionError("imagemagick_missing", NoPage, NoPath)
            /\ pc' = "failed"
       ELSE /\ pc' = "enter"
            /\ UNCHANGED error
    /\ UNCHANGED <<inputsV, cliV, temp_dir, tempCreated, files, outFile, loopV,
                   listsV, pass, final_size, result, logsV>>

\* line 144: end_page of the important tier
ImportantEnd == Min(important_pages, total_pages)
\* variant: the remaining tier starts one page early
RemainingStartOffByOne == important_pages - 1
\* line 153: start_page of the remaining tier
RemainingStart == important_pages
\* line 154: end_page of the remaining tier
RemainingEnd == total_pages

\* lines 145-146, 155-156: dpi and quality handed to each tier's call
TierDpi(t) == IF t = 1 THEN first_page_dpi ELSE remaining_dpi
TierQuality(t) == IF t = 1 THEN first_page_quality ELSE remaining_quality

\* lines 135-147 and 75: the temporary directory is created and the important
\* tier's call starts
EnterTempDir ==
    /\ pc = "enter"
    /\ temp_dir' = TRUE
    /\ tempCreated' = TRUE
    /\ tier' = 1
    /\ i' = 0
    /\ end_page' = ImportantEnd
    /\ images' = <<>>
    /\ pc' = "loop"
    /\ UNCHANGED <<inputsV, cliV, files, outFile, listsV, pass, final_size, result,
                   error, logsV>>

\* files with path p (over)written with content c
WriteFile(fs, p, c) ==
    [q \in (DOMAIN fs) \cup {p} |-> IF q = p THEN c ELSE fs[q]]

\* lines 79-92: the magick command line of page i and how the process ended
MagickCall(outcome) ==
    [tier |-> tier, page |-> i, dpi |-> TierDpi(tier),
     quality |-> TierQuality(tier), outcome |-> outcome]

\* variant: no os.path.exists test, the path is kept although no file was made
RunMagickNoExistsTest ==
    /\ pc = "loop"
    /\ i < end_page
    /\ \/ /\ rasterLog' = Append(rasterLog, MagickCall("error"))
          /\ error' = CompressionError("convert_page", i, NoPath)
          /\ pc' = "exiting"
          /\ UNCHANGED <<files, i, images>>
       \/ /\ rasterLog' = Append(rasterLog, MagickCall("nofile"))
          /\ images' = Append(images, PagePath(i))
          /\ i' = i + 1
          /\ UNCHANGED <<files, error, pc>>
       \/ /\ rasterLog' = Append(rasterLog, MagickCall("file"))
          /\ \E b \in ImageBytes :
                files' = WriteFile(files, PagePath(i),
                                   [page |-> i, dpi |-> TierDpi(tier),
                                    quality |-> TierQuality(tier), bytes |-> b,
                                    encodes |-> 0, partial |-> FALSE])
          /\ pc' = "compress"
          /\ UNCHANGED <<error, i, images>>
    /\ UNCHANGED <<inputsV, cliV, temp_dir, tempCreated, outFile, tier, end_page,
                   listsV, pass, final_size, result, compressLog,
                   assembleLog, outOpens, measureLog>>

\* variant: a page that left no file is a hard failure
RunMagickMissingFileFatal ==
    /\ pc = "loop"
    /\ i < end_page
    /\ \/ /\ rasterLog' = Append(rasterLog, MagickCall("error"))
          /\ error' = CompressionError("convert_page", i, NoPath)
          /\ pc' = "exiting"
          /\ UNCHANGED <<files, i>>
       \/ /\ rasterLog' = Append(rasterLog, MagickCall("nofile"))
          /\ error' = CompressionError("convert_page", i, NoPath)
          /\ pc' = "exiting"
          /\ UNCHANGED <<files, i>>
       \/ /\ rasterLog' = Append(rasterLog, MagickCall("file"))
          /\ \E b \in ImageBytes :
                files' = WriteFile(files, PagePath(i),
                                   [page |-> i, dpi |-> TierDpi(tier),
                                    quality |-> TierQuality(tier), bytes |-> b,
                                    encodes |-> 0, partial |-> FALSE])
          /\ pc' = "compress"
          /\ UNCHANGED <<error, i>>
    /\ UNCHANGED <<inputsV, cliV, temp_dir, tempCreated, outFile, tier, end_page,
                   images, listsV, pass, final_size, result, compressLog,
                   assembleLog, outOpens, measureLog>>

\* variant: a failed magick process only skips its page
RunMagickSkipFailed ==
    /\ pc = "loop"
    /\ i < end_page
    /\ \/ /\ rasterLog' = Append(rasterLog, MagickCall("error"))
          /\ i' = i + 1
          /\ UNCHANGED <<files, error, pc>>
       \/ /\ rasterLog' = Append(rasterLog, MagickCall("nofile"))
          /\ i' = i + 1
          /\ UNCHANGED <<files, error, pc>>
       \/ /\ rasterLog' = Append(rasterLog, MagickCall("file"))
          /\ \E b \in ImageBytes :
                files' = WriteFile(files, PagePath(i),
                                   [page |-> i, dpi |-> TierDpi(tier),
                                    quality |-> TierQuality(tier), bytes |-> b,
                                    encodes |-> 0, partial |-> FALSE])
          /\ pc' = "compress"
          /\ UNCHANGED <<error, i>>
    /\ UNCHANGED <<inputsV, cliV, temp_dir, tempCreated, outFile, tier, end_page,
                   images, listsV, pass, final_size, result, compressLog,
                   assembleLog, outOpens, measureLog>>

\* lines 79-97, one iteration of the loop up to the existence test: the magick
\* process fails, or succeeds leaving no file, or succeeds leaving a file
RunMagick ==
    /\ pc = "loop"
    /\ i < end_page
    /\ \/ /\ rasterLog' = Append(rasterLog, MagickCall("error"))
          /\ error' = CompressionError("convert_page", i, NoPath)
          /\ pc' = "exiting"
          /\ UNCHANGED <<files, i>>
       \/ /\ rasterLog' = Append(rasterLog, MagickCall("nofile"))
          /\ i' = i + 1
          /\ UNCHANGED <<files, error, pc>>
       \/ /\ rasterLog' = Append(rasterLog, MagickCall("file"))
          /\ \E b \in ImageBytes :
                files' = WriteFile(files, PagePath(i),
                                   [page |-> i, dpi |-> TierDpi(tier),
                                    quality |-> TierQuality(tier), bytes |-> b,
                                    encodes |-> 0, partial |-> FALSE])
          /\ pc' = "compress"
          /\ UNCHANGED <<error, i>>
    /\ UNCHANGED <<inputsV, cliV, temp_dir, tempCreated, outFile, tier, end_page,
                   images, listsV, pass, final_size, result, compressLog,
                   assembleLog, outOpens, measureLog>>

\* lines 34-47: the outcomes of compress_image(image_path, quality, optimize)
\* on the file content c: re-encoded in place, or a failure that leaves the
\* file as it was or partially written
compress_image(c, quality, optimize) ==
    {[ok |-> TRUE,
      content |-> [c EXCEPT !.quality = quality, !.bytes = b,
                            !.encodes = c.encodes + 1]] : b \in ImageBytes}
    \cup {[ok |-> FALSE, content |-> c],
          [ok |-> FALSE, content |-> [c EXCEPT !.partial = TRUE]]}

CompressCall(p, quality, optimize, ok) ==
    [path |-> p, quality |-> quality, optimize |-> optimize, ok |-> ok,
     assembled |-> Len(assembleLog)]

\* variant: compress_image called without the quality argument (default 60)
CompressRasterImageDefaultQuality ==
    /\ pc = "compress"
    /\ LET p == PagePath(i)
           q == 60
       IN \E o \in compress_image(files[p], q, TRUE) :
            /\ files' = WriteFile(files, p, o.content)
            /\ compressLog' = Append(compressLog, CompressCall(p, q, TRUE, o.ok))
            /\ IF o.ok
               THEN /\ images' = Append(images, p)
                    /\ i' = i + 1
                    /\ pc' = "loop"
                    /\ UNCHANGED error
               ELSE /\ error' = CompressionError("compress_image", NoPage, p)
                    /\ pc' = "exiting"
                    /\ UNCHANGED <<images, i>>
    /\ UNCHANGED <<inputsV, cliV, temp_dir, tempCreated, outFile, tier, end_page,
                   listsV, pass, final_size, result, rasterLog, assembleLog,
                   outOpens, measureLog>>

\* lines 93-95: the file exists, it is recompressed at the tier's quality and
\* appended to images
CompressRasterImage ==
    /\ pc = "compress"
    /\ LET p == PagePath(i)
           q == TierQuality(tier)
       IN \E o \in compress_image(files[p], q, TRUE) :
            /\ files' = WriteFile(files, p, o.content)
            /\ compressLog' = Append(compressLog, CompressCall(p, q, TRUE, o.ok))
            /\ IF o.ok
               THEN /\ images' = Append(images, p)
                    /\ i' = i + 1
                    /\ pc' = "loop"
                    /\ UNCHANGED error
               ELSE /\ error' = CompressionError("compress_image", NoPage, p)
                    /\ pc' = "exiting"
                    /\ UNCHANGED <<images, i>>
    /\ UNCHANGED <<inputsV, cliV, temp_dir, tempCreated, outFile, tier, end_page,
                   listsV, pass, final_size, result, rasterLog, assembleLog,
                   outOpens, measureLog>>

\* line 99 of the first call, lines 141 and 151-157: first_pages is bound and
\* the remaining tier's call starts
ReturnFirstPages ==
    /\ pc = "loop"
    /\ i >= end_page
    /\ tier = 1
    /\ first_pages' = images
    /\ tier' = 2
    /\ i' = RemainingStart
    /\ end_page' = RemainingEnd
    /\ images' = <<>>
    /\ UNCHANGED <<inputsV, cliV, pc, temp_dir, tempCreated, files, outFile,
                   remaining_pages, all_images, extreme_images, pass,
                   final_size, result, error, logsV>>

\* line 99 of the second call, line 151
ReturnRemainingPages ==
    /\ pc = "loop"
    /\ i >= end_page
    /\ tier = 2
    /\ remaining_pages' = images
    /\ pc' = "combine"
    /\ UNCHANGED <<inputsV, cliV, temp_dir, tempCreated, files, outFile, loopV,
                   first_pages, all_images, extreme_images, pass, final_size,
                   result, error, logsV>>

\* variant: the two tiers concatenated the other way round
AllImagesReversed == remaining_pages \o first_pages
\* line 161
AllImages == first_pages \o remaining_pages

\* variant: no emptiness test before the reassembly
CombineNoCheck ==
    /\ pc = "combine"
    /\ all_images' = AllImages
    /\ pc' = "open"
    /\ pass' = 1
    /\ UNCHANGED <<inputsV, cliV, temp_dir, tempCreated, files, outFile, loopV,
                   first_pages, remaining_pages, extreme_images, final_size,
                   result, error, logsV>>
\* lines 161-164
Combine ==
    /\ pc = "combine"
    /\ all_images' = AllImages
    /\ IF all_images' = <<>>
       THEN /\ error' = CompressionError("no_images", NoPage, NoPath)
            /\ pc' = "exiting"
            /\ UNCHANGED pass
       ELSE /\ pc' = "open"
            /\ pass' = 1
            /\ UNCHANGED error
    /\ UNCHANGED <<inputsV, cliV, temp_dir, tempCreated, files, outFile, loopV,
                   first_pages, remaining_pages, extreme_images, final_size,
                   result, logsV>>

OtherError(m) == [kind |-> "Exception", msg |-> m, page |-> NoPage, path |-> NoPath]

\* lines 166 and 186: open(output_path, 'wb') truncates the file, or fails
OpenOutput ==
    /\ pc = "open"
    /\ outOpens' = outOpens + 1
    /\ \/ /\ outFile' = TruncatedFile
          /\ pc' = "write"
          /\ UNCHANGED error
       \/ /\ error' = OtherError("open_output")
          /\ pc' = "exiting"
          /\ UNCHANGED outFile
    /\ UNCHANGED <<inputsV, cliV, temp_dir, tempCreated, files, loopV, listsV, pass,
                   final_size, result, rasterLog, compressLog, assembleLog,
                   measureLog>>

\* variant: the extreme pass reassembles the important tier only
ReassemblyInputFirstOnly == IF pass = 1 THEN all_images ELSE first_pages
\* the sequence handed to img2pdf.convert: all_images on line 167,
\* extreme_images on line 187
ReassemblyInput == IF pass = 1 THEN all_images ELSE extreme_images

\* lines 167 and 187: img2pdf.convert runs, then its bytes are written
WriteOutput ==
    /\ pc = "write"
    /\ assembleLog' = Append(assembleLog, ReassemblyInput)
    /\ \/ /\ \A n \in DOMAIN ReassemblyInput :
                ReassemblyInput[n] \in DOMAIN files
          /\ outFile' = Img2PdfConvert(ReassemblyInput)
          /\ pc' = "size_check"
          /\ UNCHANGED error
       \/ /\ error' = OtherError("img2pdf_convert")
          /\ pc' = "exiting"
          /\ UNCHANGED outFile
    /\ UNCHANGED <<inputsV, cliV, temp_dir, tempCreated, files, loopV, listsV, pass,
                   final_size, result, rasterLog, compressLog, outOpens,
                   measureLog>>

\* variant: the size is measured once and the first measurement is reused
MeasuredSizeStale ==
    IF final_size = NoSize THEN SizeMB(outFile.bytes) ELSE final_size
\* lines 170 and 189
MeasuredSize == SizeMB(outFile.bytes)

\* variant: strict comparison
WithinTargetStrict(size) ==
    size.num * target_size_mb.den < target_size_mb.num * size.den
\* lines 173 and 191: the comparison with the target
WithinTarget(size) == LeqMB(size, target_size_mb)

\* variant: the flag of the first return statement is returned on both paths
ReturnsTrue(success, size) == [returned |-> TRUE, success |-> TRUE, final_size |-> size]
\* lines 175 and 191: the returned tuple
Returns(success, size) == [returned |-> TRUE, success |-> success, final_size |-> size]

\* variant: the output is opened for the second write before the extreme loop
SizeCheckOpensEarly ==
    /\ pc = "size_check"
    /\ pass = 1
    /\ final_size' = MeasuredSize
    /\ measureLog' = Append(measureLog, MeasuredSize)
    /\ IF WithinTarget(final_size')
       THEN /\ result' = Returns(TRUE, final_size')
            /\ pc' = "exiting"
            /\ UNCHANGED <<extreme_images, outFile>>
       ELSE /\ extreme_images' = <<>>
            /\ outFile' = TruncatedFile
            /\ pc' = "extreme"
            /\ UNCHANGED result
    /\ UNCHANGED <<inputsV, cliV, temp_dir, tempCreated, files, loopV,
                   first_pages, remaining_pages, all_images, pass, error,
                   rasterLog, compressLog, assembleLog, outOpens>>
\* lines 170-179: the first size check
SizeCheck ==
    /\ pc = "size_check"
    /\ pass = 1
    /\ final_size' = MeasuredSize
    /\ measureLog' = Append(measureLog, MeasuredSize)
    /\ IF WithinTarget(final_size')
       THEN /\ result' = Returns(TRUE, final_size')
            /\ pc' = "exiting"
            /\ UNCHANGED extreme_images
       ELSE /\ extreme_images' = <<>>
            /\ pc' = "extreme"
            /\ UNCHANGED result
    /\ UNCHANGED <<inputsV, cliV, temp_dir, tempCreated, files, outFile, loopV,
                   first_pages, remaining_pages, all_images, pass, error,
                   rasterLog, compressLog, assembleLog, outOpens>>

\* variant: a failed recompression in the extreme pass is reported as a
\* missed target
ExtremeCompressDowngrade ==
    /\ pc = "extreme"
    /\ Len(extreme_images) < Len(all_images)
    /\ LET img_path == all_images[Len(extreme_images) + 1]
       IN \E o \in compress_image(files[img_path], ExtremeQuality, TRUE) :
            /\ files' = WriteFile(files, img_path, o.content)
            /\ compressLog' = Append(compressLog,
                                 CompressCall(img_path, ExtremeQuality, TRUE, o.ok))
            /\ IF o.ok
               THEN /\ extreme_images' = Append(extreme_images, img_path)
                    /\ UNCHANGED <<result, pc>>
               ELSE /\ result' = Returns(FALSE, final_size)
                    /\ pc' = "exiting"
                    /\ UNCHANGED extreme_images
    /\ UNCHANGED <<inputsV, cliV, temp_dir, tempCreated, outFile, loopV, first_pages,
                   remaining_pages, all_images, pass, final_size, error,
                   rasterLog, assembleLog, outOpens, measureLog>>

\* lines 181-184, one iteration: the next image of all_images is recompressed
\* in place at quality 15 and its path appended to extreme_images
ExtremeCompress ==
    /\ pc = "extreme"
    /\ Len(extreme_images) < Len(all_images)
    /\ LET img_path == all_images[Len(extreme_images) + 1]
       IN \E o \in compress_image(files[img_path], ExtremeQuality, TRUE) :
            /\ files' = WriteFile(files, img_path, o.content)
            /\ compressLog' = Append(compressLog,
                                 CompressCall(img_path, ExtremeQuality, TRUE, o.ok))
            /\ IF o.ok
               THEN /\ extreme_images' = Append(extreme_images, img_path)
                    /\ UNCHANGED <<error, pc>>
               ELSE /\ error' = CompressionError("compress_image", NoPage, img_path)
                    /\ pc' = "exiting"
                    /\ UNCHANGED extreme_images
    /\ UNCHANGED <<inputsV, cliV, temp_dir, tempCreated, outFile, loopV, first_pages,
                   remaining_pages, all_images, pass, final_size, result,
                   rasterLog, assembleLog, outOpens, measureLog>>

\* line 181 exhausted, line 186 next
ExtremeDone ==
    /\ pc = "extreme"
    /\ Len(extreme_images) >= Len(all_images)
    /\ pass' = 2
    /\ pc' = "open"
    /\ UNCHANGED <<inputsV, cliV, temp_dir, tempCreated, files, outFile, loopV,
                   listsV, final_size, result, error, logsV>>

\* variant: an over-target second measurement starts another extreme pass
SizeCheck2Retry ==
    /\ pc = "size_check"
    /\ pass = 2
    /\ final_size' = MeasuredSize
    /\ measureLog' = Append(measureLog, MeasuredSize)
    /\ IF WithinTarget(final_size') \/ Len(measureLog) >= 3
       THEN /\ result' = Returns(WithinTarget(final_size'), final_size')
            /\ pc' = "exiting"
            /\ UNCHANGED extreme_images
       ELSE /\ extreme_images' = <<>>
            /\ pc' = "extreme"
            /\ UNCHANGED result
    /\ UNCHANGED <<inputsV, cliV, temp_dir, tempCreated, files, outFile, loopV,
                   first_pages, remaining_pages, all_images, pass, error,
                   rasterLog, compressLog, assembleLog, outOpens>>
\* lines 189-191: the second size check, terminal
SizeCheck2 ==
    /\ pc = "size_check"
    /\ pass = 2
    /\ final_size' = MeasuredSize
    /\ measureLog' = Append(measureLog, MeasuredSize)
    /\ result' = Returns(WithinTarget(final_size'), final_size')
    /\ pc' = "exiting"
    /\ UNCHANGED <<inputsV, cliV, temp_dir, tempCreated, files, outFile, loopV,
                   listsV, pass, error, rasterLog, compressLog, assembleLog,
                   outOpens>>

\* line 135: control leaves the with block, by return or by exception, and
\* the TemporaryDirectory is removed
ExitWithBlock ==
    /\ pc = "exiting"
    /\ ExitTempDir
    /\ pc' = IF error = NoError THEN "done" ELSE "failed"
    /\ UNCHANGED <<inputsV, cliV, tempCreated, outFile, loopV, listsV, pass,
                   final_size, result, error, logsV>>

\* variant: a missed target only prints the warning
ExitCodeWarnOnly(res, err) ==
    IF err.kind \in {"FileNotFoundError", "CompressionError", "Exception"}
    THEN 1 ELSE 0
\* __main__.py lines 61-86: the exit status main() ends the process with,
\* given what compress_pdf returned or raised
ExitCode(res, err) ==
    IF err.kind = "none"
    THEN IF ~res.success THEN 1 ELSE 0
    ELSE IF err.kind = "FileNotFoundError" THEN 1
    ELSE IF err.kind = "CompressionError" THEN 1
    ELSE 1

\* __main__.py lines 61-86: compress_pdf has returned or raised inside the
\* try block of main()
Main ==
    /\ pc \in {"done", "failed"}
    /\ exit_code = NoExit
    /\ exit_code' = ExitCode(result, error)
    /\ UNCHANGED <<inputsV, pc, temp_dir, tempCreated, files, outFile, loopV,
                   listsV, pass, final_size, result, error, logsV>>

Next ==
    \/ Main
    \/ CheckInputPath
    \/ CheckDependencies
    \/ EnterTempDir
    \/ RunMagick
    \/ CompressRasterImage
    \/ ReturnFirstPages
    \/ ReturnRemainingPages
    \/ Combine
    \/ OpenOutput
    \/ WriteOutput
    \/ SizeCheck
    \/ ExtremeCompress
    \/ ExtremeDone
    \/ SizeCheck2
    \/ ExitWithBlock

Spec == Init /\ [][Next]_vars

\* the run is one sequential thread: whenever a step is possible the
\* interpreter takes it (every external call is blocking and returns)
FairSpec == Spec /\ WF_vars(Next)

\* ----------------------------------------------------------------------
\* The two convert_pdf_to_images calls of lines 141-157 run as two tasks
\* whose per-page steps interleave in any order (the sequential order of
\* the program is one of the interleavings).  Here pc, i, end_page and
\* images hold one value per call: pc[1], i[1], ... belong to the important
\* tier's call, pc[2], i[2], ... to the remaining tier's.
\* ----------------------------------------------------------------------
Tiers == {1, 2}

ConcInit ==
    /\ inputExists = TRUE
    /\ depsOk = TRUE
    /\ total_pages \in PageCounts
    /\ important_pages \in ImportantPagesSet
    /\ target_size_mb = [num |-> 9, den |-> 2]
    /\ samePath = FALSE
    /\ exit_code = NoExit
    /\ pc = [t \in Tiers |-> "loop"]
    /\ temp_dir = TRUE
    /\ tempCreated = TRUE
    /\ files = EmptyFiles
    /\ outFile = AbsentFile
    /\ tier = 0
    /\ i = [t \in Tiers |-> IF t = 1 THEN 0 ELSE RemainingStart]
    /\ end_page = [t \in Tiers |-> IF t = 1 THEN ImportantEnd ELSE RemainingEnd]
    /\ images = [t \in Tiers |-> <<>>]
    /\ first_pages = <<>>
    /\ remaining_pages = <<>>
    /\ all_images = <<>>
    /\ extreme_images = <<>>
    /\ pass = 0
    /\ final_size = NoSize
    /\ result = NoResult
    /\ error = NoError
    /\ rasterLog = <<>>
    /\ compressLog = <<>>
    /\ assembleLog = <<>>
    /\ outOpens = 0
    /\ measureLog = <<>>

concFrame == <<inputsV, cliV, temp_dir, tempCreated, outFile, tier, end_page,
               all_images, extreme_images, pass, final_size, result, error,
               assembleLog, outOpens, measureLog>>

\* lines 79-92 for call t
ConcMagickCall(t, outcome) ==
    [tier |-> t, page |-> i[t], dpi |-> TierDpi(t),
     quality |-> TierQuality(t), outcome |-> outcome]

\* lines 76-97, one iteration of call t up to the existence test
ConcRunMagick(t) ==
    /\ pc[t] = "loop"
    /\ i[t] < end_page[t]
    /\ \/ /\ rasterLog' = Append(rasterLog, ConcMagickCall(t, "error"))
          /\ pc' = [pc EXCEPT ![t] = "raised"]
          /\ UNCHANGED <<files, i>>
       \/ /\ rasterLog' = Append(rasterLog, ConcMagickCall(t, "nofile"))
          /\ i' = [i EXCEPT ![t] = i[t] + 1]
          /\ UNCHANGED <<files, pc>>
       \/ /\ rasterLog' = Append(rasterLog, ConcMagickCall(t, "file"))
          /\ \E b \in ImageBytes :
                files' = WriteFile(files, PagePath(i[t]),
                                   [page |-> i[t], dpi |-> TierDpi(t),
                                    quality |-> TierQuality(t), bytes |-> b,
                                    encodes |-> 0, partial |-> FALSE])
          /\ pc' = [pc EXCEPT ![t] = "compress"]
          /\ UNCHANGED i
    /\ UNCHANGED <<concFrame, images, first_pages, remaining_pages, compressLog>>

\* lines 93-95 for call t
ConcCompressRasterImage(t) ==
    /\ pc[t] = "compress"
    /\ LET p == PagePath(i[t])
           q == TierQuality(t)
       IN \E o \in compress_image(files[p], q, TRUE) :
            /\ files' = WriteFile(files, p, o.content)
            /\ compressLog' = Append(compressLog, CompressCall(p, q, TRUE, o.ok))
            /\ IF o.ok
               THEN /\ images' = [images EXCEPT ![t] = Append(images[t], p)]
                    /\ i' = [i EXCEPT ![t] = i[t] + 1]
                    /\ pc' = [pc EXCEPT ![t] = "loop"]
               ELSE /\ pc' = [pc EXCEPT ![t] = "raised"]
                    /\ UNCHANGED <<images, i>>
    /\ UNCHANGED <<concFrame, first_pages, remaining_pages, rasterLog>>

\* line 99 for call t, and the assignment of its result (lines 141, 151)
ConcReturnImages(t) ==
    /\ pc[t] = "loop"
    /\ i[t] >= end_page[t]
    /\ pc' = [pc EXCEPT ![t] = "returned"]
    /\ IF t = 1
       THEN first_pages' = images[t] /\ UNCHANGED remaining_pages
       ELSE remaining_pages' = images[t] /\ UNCHANGED first_pages
    /\ UNCHANGED <<concFrame, files, i, images, rasterLog, compressLog>>

ConcNext ==
    \E t \in Tiers :
        \/ ConcRunMagick(t)
        \/ ConcCompressRasterImage(t)
        \/ ConcReturnImages(t)

ConcSpec == ConcInit /\ [][ConcNext]_vars

\* the file at input_path: the same file as the output when the paths agree
InputDocument == IF samePath THEN outFile ELSE InputFile

\* ======================================================================
\* Properties
\* ======================================================================
Returned == pc = "done"
Failed == pc = "failed"
Terminated == pc \in {"done", "failed"}

\* compress_image calls on path p made before / after the first reassembly
TierCalls(p) ==
    {n \in DOMAIN compressLog :
        compressLog[n].path = p /\ compressLog[n].assembled = 0}
ExtremeCalls(p) ==
    {n \in DOMAIN compressLog :
        compressLog[n].path = p /\ compressLog[n].assembled >= 1}
AllCalls(p) == {n \in DOMAIN compressLog : compressLog[n].path = p}
LoggedPaths == {compressLog[n].path : n \in DOMAIN compressLog}
SeqRange(s) == {s[n] : n \in DOMAIN s}

FirstMeasured == Len(measureLog) >= 1
FirstPassWithin ==
    /\ FirstMeasured
    /\ measureLog[1].num * target_size_mb.den
           <= target_size_mb.num * measureLog[1].den
FirstPassOver ==
    /\ FirstMeasured
    /\ measureLog[1].num * target_size_mb.den
           > target_size_mb.num * measureLog[1].den

\* C1: when the size measured after the first reassembly is <= target_size_mb
\* the run returns (True, that size) and there is no extreme pass: no image is
\* recompressed after the first reassembly, the output path is opened and
\* written once, img2pdf.convert is called exactly once.
C1_WithinTargetReturnsWithoutExtremePass ==
    FirstPassWithin =>
        /\ pc \in {"exiting", "done"}
        /\ error = NoError
        /\ result = [returned |-> TRUE, success |-> TRUE,
                     final_size |-> measureLog[1]]
        /\ measureLog[1] = [num |-> outFile.bytes, den |-> 1048576]
        /\ Len(measureLog) = 1
        /\ Len(assembleLog) = 1
        /\ outOpens = 1
        /\ outFile.kind = "pdf"
        /\ \A n \in DOMAIN compressLog : compressLog[n].assembled = 0
        /\ extreme_images = <<>>

C1_Witness ==
    /\ Returned
    /\ FirstPassWithin
    /\ result.success
    /\ Len(all_images) >= 2

\* C2: when the size measured after the first reassembly is > target_size_mb
\* the extreme pass happens once: no image is recompressed at quality 15 more
\* than once and only images of the first-pass sequence are; a run that
\* returns has recompressed every image of that sequence exactly once at
\* quality 15 with optimize on, has handed the second reassembly the same
\* ordered sequence as the first, and returns the size measured after the
\* second reassembly.
C2_OverTargetOneExtremePass ==
    /\ \A p \in LoggedPaths :
          /\ Cardinality(ExtremeCalls(p)) <= 1
          /\ ExtremeCalls(p) # {} => FirstPassOver /\ p \in SeqRange(assembleLog[1])
    /\ Len(assembleLog) >= 2 => FirstPassOver
    /\ Len(assembleLog) <= 2
    /\ (FirstPassOver /\ Returned) =>
          /\ \A p \in SeqRange(assembleLog[1]) :
                /\ Cardinality(ExtremeCalls(p)) = 1
                /\ \A n \in ExtremeCalls(p) :
                      /\ compressLog[n].quality = 15
                      /\ compressLog[n].optimize = TRUE
                      /\ compressLog[n].ok
                      /\ compressLog[n].assembled = 1
          /\ Len(assembleLog) = 2
          /\ assembleLog[2] = assembleLog[1]
          /\ Len(measureLog) = 2
          /\ outFile.kind = "pdf"
          /\ \A n \in DOMAIN outFile.pages : outFile.pages[n].quality = 15
          /\ measureLog[2] = [num |-> outFile.bytes, den |-> 1048576]
          /\ result.returned
          /\ result.final_size = measureLog[2]

C2_Witness ==
    /\ Returned
    /\ FirstPassOver
    /\ Len(assembleLog[1]) >= 2
    /\ measureLog[2] # measureLog[1]

\* C3: whenever compress_pdf returns (success, final_size), on either path,
\* success is true exactly when final_size <= target_size_mb, and final_size
\* is the size in MB of the file at the output path at that moment.
C3_SuccessFlagMatchesFinalSize ==
    Returned =>
        /\ result.returned
        /\ error = NoError
        /\ result.success <=>
              (result.final_size.num * target_size_mb.den
                   <= target_size_mb.num * result.final_size.den)
        /\ outFile.kind = "pdf"
        /\ result.final_size = [num |-> outFile.bytes, den |-> 1048576]

C3_Witness ==
    /\ Returned
    /\ ~result.success
    /\ Len(measureLog) = 2

\* C4: at most two attempts.  In every state the output path has been opened
\* and assembled at most twice, the size measured at most twice, and no image
\* file recompressed more than twice (at most once before the first
\* reassembly, at its tier's quality, and at most once after it, at quality
\* 15); the second size check is followed only by the return; and every run
\* terminates, returning or failing.
C4_Counts ==
    /\ outOpens <= 2
    /\ Len(assembleLog) <= 2
    /\ Len(measureLog) <= 2
    /\ \A p \in LoggedPaths :
          /\ Cardinality(AllCalls(p)) <= 2
          /\ Cardinality(TierCalls(p)) <= 1
          /\ Cardinality(ExtremeCalls(p)) <= 1
          /\ \A n \in ExtremeCalls(p) : compressLog[n].quality = 15
          /\ \A n \in TierCalls(p) :
                \E m \in DOMAIN rasterLog :
                    /\ PagePath(rasterLog[m].page) = p
                    /\ rasterLog[m].quality = compressLog[n].quality

C4_SecondCheckIsTerminal ==
    (Len(measureLog) = 2) => (pc' \in {"exiting", "done"} /\ measureLog' = measureLog
                              /\ compressLog' = compressLog /\ outOpens' = outOpens)

C4_AtMostTwoAttempts ==
    /\ []C4_Counts
    /\ [][C4_SecondCheckIsTerminal]_vars
    /\ <>Terminated

C4_Witness ==
    /\ Terminated
    /\ Len(measureLog) = 2
    /\ outOpens = 2
    /\ \E p \in LoggedPaths : Cardinality(AllCalls(p)) = 2

\* C5: for important_pages >= 0 the important tier invokes the rasterizer only
\* on pages of [0, min(important_pages, total_pages)), at dpi 200 / quality 85
\* by default, the remaining tier only on pages of
\* [min(important_pages, total_pages), total_pages), at dpi 35 / quality 25,
\* no page is rasterized twice, and once both tiers have run through their
\* ranges every page of [0, total_pages) has been rasterized exactly once, by
\* the tier its index belongs to.
TiersRanThrough == tier = 2 /\ i >= end_page
RasterCalls(t, pg) ==
    {n \in DOMAIN rasterLog : rasterLog[n].tier = t /\ rasterLog[n].page = pg}
Split == IF important_pages <= total_pages THEN important_pages ELSE total_pages

C5_TiersPartitionThePages ==
    important_pages >= 0 =>
        /\ \A n \in DOMAIN rasterLog :
              LET c == rasterLog[n]
              IN /\ c.tier = 1 => /\ 0 <= c.page /\ c.page < Split
                                  /\ c.dpi = 200 /\ c.quality = 85
                 /\ c.tier = 2 => /\ Split <= c.page /\ c.page < total_pages
                                  /\ c.dpi = 35 /\ c.quality = 25
                 /\ c.tier \in {1, 2}
        /\ \A n, m \in DOMAIN rasterLog :
              rasterLog[n].page = rasterLog[m].page => n = m
        /\ TiersRanThrough =>
              /\ Len(rasterLog) = total_pages
              /\ \A pg \in 0..(total_pages - 1) :
                    /\ Cardinality(RasterCalls(1, pg)) = (IF pg < Split THEN 1 ELSE 0)
                    /\ Cardinality(RasterCalls(2, pg)) = (IF pg < Split THEN 0 ELSE 1)

C5_Witness ==
    /\ important_pages >= 1
    /\ important_pages < total_pages
    /\ TiersRanThrough
    /\ Len(rasterLog) = total_pages

\* C6: every sequence handed to img2pdf.convert, in the first pass and in the
\* extreme pass, is in strictly ascending page index (so no page appears
\* twice), and the images made by the important tier precede those made by
\* the remaining tier.
ProducedBy(p) ==
    {rasterLog[n].tier : n \in {m \in DOMAIN rasterLog :
                                   /\ PagePath(rasterLog[m].page) = p
                                   /\ rasterLog[m].outcome = "file"}}

C6_ReassemblyInPageOrder ==
    \A n \in DOMAIN assembleLog :
        LET s == assembleLog[n]
        IN /\ \A a \in DOMAIN s : ProducedBy(s[a]) # {}
           /\ \A a, b \in DOMAIN s :
                 a < b => /\ s[a][2] < s[b][2]
                          /\ \A ta \in ProducedBy(s[a]) :
                                \A tb \in ProducedBy(s[b]) : ta <= tb

C6_Witness ==
    /\ Len(assembleLog) = 2
    /\ Len(assembleLog[2]) >= 3
    /\ ProducedBy(assembleLog[2][1]) = {1}
    /\ ProducedBy(assembleLog[2][3]) = {2}

\* C7: when both tier calls have returned and first_pages + remaining_pages
\* is empty, the run raises CompressionError("No images were created ...");
\* the output path is never opened or written, img2pdf.convert is never
\* called and no result is returned.
TiersReturned == tier = 2 /\ i >= end_page /\ pc # "loop"

C7_EmptyImageSetIsFatal ==
    (TiersReturned /\ first_pages \o remaining_pages = <<>>) =>
        /\ pc \in {"combine", "exiting", "failed"}
        /\ pc # "combine" =>
              error = [kind |-> "CompressionError", msg |-> "no_images",
                       page |-> NoPage, path |-> NoPath]
        /\ outOpens = 0
        /\ assembleLog = <<>>
        /\ outFile.kind \in {"absent", "old", "input"}
        /\ ~result.returned
        /\ measureLog = <<>>

C7_Witness ==
    /\ Failed
    /\ error.msg = "no_images"
    /\ total_pages >= 2
    /\ Len(rasterLog) = total_pages

\* C8: a missing input makes compress_pdf raise FileNotFoundError, a failed
\* probe on an existing input makes it raise the missing-ImageMagick
\* CompressionError; in both cases nothing else happens: no temporary
\* directory or file is created, no page rasterized, the output path is not
\* opened and nothing is returned.
C8_FailFastWithoutPartialWork ==
    /\ ~inputExists =>
          /\ pc \in {"start", "failed"}
          /\ Failed => error = [kind |-> "FileNotFoundError",
                                msg |-> "input_not_found",
                                page |-> NoPage, path |-> NoPath]
    /\ (inputExists /\ ~depsOk) =>
          /\ pc \in {"start", "check_deps", "failed"}
          /\ Failed => error = [kind |-> "CompressionError",
                                msg |-> "imagemagick_missing",
                                page |-> NoPage, path |-> NoPath]
    /\ (~inputExists \/ ~depsOk) =>
          /\ ~tempCreated
          /\ ~temp_dir
          /\ DOMAIN files = {}
          /\ rasterLog = <<>>
          /\ compressLog = <<>>
          /\ assembleLog = <<>>
          /\ outOpens = 0
          /\ outFile.kind \in {"absent", "old", "input"}
          /\ ~result.returned

C8_Witness ==
    /\ Failed
    /\ inputExists
    /\ ~depsOk
    /\ outFile.kind = "old"

\* C9: once a run that created the temporary directory has ended, by a return
\* after either pass or by any exception, the directory and every image file
\* in it are gone.
C9_TempDirRemovedOnEveryExit ==
    (Terminated /\ tempCreated) =>
        /\ ~temp_dir
        /\ DOMAIN files = {}

C9_Witness ==
    /\ Failed
    /\ tempCreated
    /\ error.msg = "compress_image"
    /\ Len(compressLog) >= 3
    /\ Len(assembleLog) = 1

\* C10: a failed magick invocation for page i is the last thing the run does:
\* compress_pdf raises CompressionError carrying page i, no later page is
\* rasterized, a failure in the important tier means no remaining-tier page
\* is rasterized at all, nothing is reassembled and nothing is returned.
C10_RasterFailureAbortsTheRun ==
    \A n \in DOMAIN rasterLog :
        rasterLog[n].outcome = "error" =>
            /\ n = Len(rasterLog)
            /\ pc \in {"exiting", "failed"}
            /\ error = [kind |-> "CompressionError", msg |-> "convert_page",
                        page |-> rasterLog[n].page, path |-> NoPath]
            /\ rasterLog[n].tier = 1 =>
                  \A m \in DOMAIN rasterLog : rasterLog[m].tier = 1
            /\ \A m \in DOMAIN rasterLog : rasterLog[m].page <= rasterLog[n].page
            /\ \A m \in DOMAIN compressLog : compressLog[m].path # PagePath(rasterLog[n].page)
            /\ assembleLog = <<>>
            /\ outOpens = 0
            /\ ~result.returned

C10_Witness ==
    /\ Failed
    /\ error.msg = "convert_page"
    /\ error.page = 1
    /\ important_pages = 2
    /\ total_pages = 3
    /\ rasterLog[Len(rasterLog)].outcome = "error"

\* C11: success = False is returned only for a second measurement that is over
\* the target; a failed magick invocation, a failed compress_image call (in
\* either pass) or a failed reassembly leaves compress_pdf as an exception and
\* no (success, size) pair is returned.
RasterFailed == \E n \in DOMAIN rasterLog : rasterLog[n].outcome = "error"
RecompressFailed == \E n \in DOMAIN compressLog : ~compressLog[n].ok
OpenFailed == outOpens > Len(assembleLog) /\ pc # "write"
ConvertFailed == assembleLog # <<>> /\ outFile.kind = "empty" /\ pc # "write"

C11_FailuresAreNotDowngraded ==
    /\ (result.returned /\ ~result.success) =>
          /\ error = NoError
          /\ Len(measureLog) = 2
          /\ measureLog[2].num * target_size_mb.den
                 > target_size_mb.num * measureLog[2].den
          /\ result.final_size = measureLog[2]
          /\ ~RasterFailed /\ ~RecompressFailed /\ ~OpenFailed /\ ~ConvertFailed
    /\ (RasterFailed \/ RecompressFailed \/ OpenFailed \/ ConvertFailed) =>
          /\ ~result.returned
          /\ error # NoError
          /\ pc \in {"exiting", "failed"}
    /\ (RasterFailed \/ RecompressFailed) => error.kind = "CompressionError"

C11_Witness ==
    /\ Failed
    /\ \E n \in DOMAIN compressLog :
          ~compressLog[n].ok /\ compressLog[n].assembled = 1
    /\ Len(measureLog) = 1

\* C12: after any compress_image call, returned or raised, the file at
\* image_path is the complete re-encoded image or the intact original, never a
\* partially written file.  (img.save writes to image_path itself, lines
\* 44-45, with no temporary file and rename: a save that fails while encoding
\* has already truncated the file.)
C12_NeverPartiallyOverwrites ==
    \A p \in DOMAIN files : ~files[p].partial

\* C13: whenever img2pdf.convert is about to run, in the first pass and in
\* the extreme pass, every path of the sequence it is given names a file that
\* exists in the temporary directory, is completely written and is not empty.
C13_ReassembledImagesExist ==
    pc = "write" =>
        LET paths == IF pass = 1 THEN all_images ELSE extreme_images
        IN /\ paths # <<>>
           /\ \A n \in DOMAIN paths :
                 /\ paths[n] \in DOMAIN files
                 /\ files[paths[n]].bytes > 0
                 /\ ~files[paths[n]].partial
                 /\ files[paths[n]].encodes >= 1

C13_Witness ==
    /\ pc = "write"
    /\ pass = 2
    /\ Len(extreme_images) >= 2
    /\ Len(extreme_images) < total_pages

\* C14: whenever a (success, size) pair is returned, with success False as
\* well, the file at the output path is a complete document with exactly one
\* page per image of all_images, in that order, each page made from the latest
\* content of its image file: the quality-15 re-encoding when the extreme
\* pass ran, the tier's encoding otherwise.
LastCall(p) == CHOOSE n \in AllCalls(p) : \A m \in AllCalls(p) : m <= n

C14_ReturnedOutputIsComplete ==
    result.returned =>
        /\ outFile.kind = "pdf"
        /\ all_images # <<>>
        /\ Len(outFile.pages) = Len(all_images)
        /\ \A n \in DOMAIN all_images :
              LET pg == outFile.pages[n]
                  p == all_images[n]
              IN /\ pg.page = p[2]
                 /\ ~pg.partial
                 /\ AllCalls(p) # {}
                 /\ compressLog[LastCall(p)].ok
                 /\ pg.quality = compressLog[LastCall(p)].quality
                 /\ pg.encodes = Cardinality(AllCalls(p))
                 /\ Len(measureLog) = 2 => pg.quality = 15 /\ pg.encodes = 2
                 /\ Len(measureLog) = 1 => pg.quality \in {85, 25} /\ pg.encodes = 1
                 /\ pc = "exiting" => pg = files[p]

C14_Witness ==
    /\ Returned
    /\ ~result.success
    /\ Len(all_images) >= 2
    /\ Len(first_pages) >= 1
    /\ Len(remaining_pages) >= 1

\* C16: the command-line process exits with status 0 exactly when compress_pdf
\* returned success = True, and with status 1 when it returned success =
\* False or raised FileNotFoundError, CompressionError or any other exception.
C16_ExitCodeReflectsOutcome ==
    exit_code # NoExit =>
        /\ pc \in {"done", "failed"}
        /\ exit_code \in {0, 1}
        /\ exit_code = 0 <=> (pc = "done" /\ result.returned /\ result.success)
        /\ (pc = "done" /\ ~result.success) => exit_code = 1
        /\ error.kind \in {"FileNotFoundError", "CompressionError", "Exception"}
              => exit_code = 1

C16_Witness ==
    /\ exit_code = 1
    /\ pc = "done"
    /\ result.returned
    /\ ~result.success

\* C17: inside convert_pdf_to_images every image file magick produced is
\* recompressed before the next page is rasterized, at the quality it was
\* rasterized with: the n-th compress_image call of the first pass is on the
\* n-th file produced, and at most one produced file is still waiting for its
\* call.  In a run that returns after the first pass every image file has been
\* recompressed exactly once, at 85 if the important tier made it and at 25 if
\* the remaining tier did.
FileOutcomes == {n \in DOMAIN rasterLog : rasterLog[n].outcome = "file"}
FirstPassCalls == {n \in DOMAIN compressLog : compressLog[n].assembled = 0}
NthFile(k) ==
    CHOOSE n \in FileOutcomes : Cardinality({m \in FileOutcomes : m <= n}) = k

C17_CompressedImmediatelyAtTierQuality ==
    /\ Cardinality(FileOutcomes)
          = Cardinality(FirstPassCalls) + (IF pc = "compress" THEN 1 ELSE 0)
    /\ pc = "compress" =>
          /\ rasterLog # <<>>
          /\ rasterLog[Len(rasterLog)].outcome = "file"
          /\ rasterLog[Len(rasterLog)].page = i
    /\ \A k \in FirstPassCalls :
          /\ k <= Cardinality(FirstPassCalls)
          /\ compressLog[k].path = <<"page_", rasterLog[NthFile(k)].page, ".jpg">>
          /\ compressLog[k].quality = rasterLog[NthFile(k)].quality
          /\ compressLog[k].optimize = TRUE
    /\ (Returned /\ FirstPassWithin) =>
          \A n \in DOMAIN all_images :
              LET p == all_images[n]
              IN /\ Cardinality(AllCalls(p)) = 1
                 /\ \A c \in AllCalls(p) :
                       /\ compressLog[c].ok
                       /\ compressLog[c].quality =
                              (IF ProducedBy(p) = {1} THEN 85 ELSE 25)

C17_Witness ==
    /\ Returned
    /\ FirstPassWithin
    /\ Len(first_pages) >= 1
    /\ Len(remaining_pages) >= 1
    /\ Len(compressLog) = Len(all_images)

\* C18: a page whose magick invocation succeeded without leaving a file is
\* skipped: no exception is raised for it, its path is in no image list and
\* is never recompressed, and the call goes on through the rest of its range.
\* A returned call yields exactly the paths of the pages of its range whose
\* file exists, in ascending order; when at least one image exists the run
\* goes on to the reassembly.
TierPages(t) == {rasterLog[n].page : n \in {m \in DOMAIN rasterLog : rasterLog[m].tier = t}}
TierFilePaths(t) ==
    {<<"page_", rasterLog[n].page, ".jpg">> :
        n \in {m \in DOMAIN rasterLog :
                  rasterLog[m].tier = t /\ rasterLog[m].outcome = "file"}}
Ascending(s) == \A a, b \in DOMAIN s : a < b => s[a][2] < s[b][2]

C18_MissingRasterFileIsSkipped ==
    /\ \A n \in DOMAIN rasterLog :
          rasterLog[n].outcome = "nofile" =>
              LET p == <<"page_", rasterLog[n].page, ".jpg">>
              IN /\ ~(error.msg = "convert_page" /\ error.page = rasterLog[n].page)
                 /\ p \notin DOMAIN files
                 /\ p \notin SeqRange(first_pages) \cup SeqRange(remaining_pages)
                 /\ p \notin SeqRange(images) \cup SeqRange(all_images)
                 /\ AllCalls(p) = {}
    /\ tier = 2 =>
          /\ TierPages(1) = {pg \in 0..MaxPages + 1 :
                                pg < important_pages /\ pg < total_pages}
          /\ SeqRange(first_pages) = TierFilePaths(1)
          /\ Len(first_pages) = Cardinality(TierFilePaths(1))
          /\ Ascending(first_pages)
    /\ TiersReturned =>
          /\ TierPages(2) = {pg \in (0 - NegImportant - 1)..MaxPages + 1 :
                                important_pages <= pg /\ pg < total_pages}
          /\ SeqRange(remaining_pages) = TierFilePaths(2)
          /\ Len(remaining_pages) = Cardinality(TierFilePaths(2))
          /\ Ascending(remaining_pages)
          /\ first_pages \o remaining_pages # <<>> =>
                /\ error.msg # "no_images"
                /\ pc \in {"combine", "open"} \/ outOpens >= 1

C18_Witness ==
    /\ Returned
    /\ total_pages = 3
    /\ important_pages = 2
    /\ rasterLog[1].outcome = "nofile"
    /\ rasterLog[2].outcome = "file"
    /\ rasterLog[3].outcome = "file"
    /\ Len(all_images) = 2

\* C19: the extreme pass only rewrites the existing first-pass image files:
\* from the first size check on, the files in the temporary directory are
\* exactly the page files the two tiers produced (no extreme_ file or other
\* new file appears); and no step of a run modifies the input document.
C19_InPlaceAndInputUntouched ==
    /\ (measureLog # <<>> /\ temp_dir) =>
          DOMAIN files = TierFilePaths(1) \cup TierFilePaths(2)
    /\ inputExists => InputDocument = InputFile

\* C20: the output path is opened only after both tier calls have returned
\* and the image sequence is known to be non-empty.  A run that fails while
\* rasterizing or while recompressing in the first pass leaves the output path
\* as it was before the run; a run that fails while recompressing in the
\* extreme pass leaves the complete first-pass document at the output path.
FirstPassRecompressFailed ==
    \E n \in DOMAIN compressLog : ~compressLog[n].ok /\ compressLog[n].assembled = 0
ExtremeRecompressFailed ==
    \E n \in DOMAIN compressLog : ~compressLog[n].ok /\ compressLog[n].assembled >= 1

C20_OutputWrittenOnlyAfterTiers ==
    /\ outOpens >= 1 =>
          /\ TiersReturned
          /\ pc # "combine"
          /\ first_pages \o remaining_pages # <<>>
    /\ outOpens = 0 => outFile \in {AbsentFile, OldFile, InputFile}
    /\ (RasterFailed \/ FirstPassRecompressFailed) =>
          /\ outOpens = 0
          /\ outFile \in {AbsentFile, OldFile, InputFile}
    /\ ExtremeRecompressFailed =>
          /\ outOpens = 1
          /\ outFile.kind = "pdf"
          /\ Len(outFile.pages) = Len(all_images)
          /\ \A n \in DOMAIN all_images :
                /\ outFile.pages[n].page = all_images[n][2]
                /\ outFile.pages[n].encodes = 1
                /\ outFile.pages[n].quality \in {85, 25}
                /\ ~outFile.pages[n].partial
          /\ measureLog[1] = [num |-> outFile.bytes, den |-> 1048576]

C20_Witness ==
    /\ Failed
    /\ ExtremeRecompressFailed
    /\ Len(all_images) >= 2
    /\ Len(compressLog) = Len(all_images) + 2
    /\ outFile.kind = "pdf"

\* C15: for important_pages >= 0 the two tier calls write disjoint sets of
\* paths: under every interleaving of their per-page steps no path is written
\* by both calls and the calls are never between the magick write and the
\* recompression of the same path at the same time; every file holds what its
\* own tier wrote (dpi and quality of the tier its page index belongs to,
\* recompressed at most once), and when both calls have returned they yield
\* the sequences the sequential order yields: each tier's existing files of
\* its own range, in ascending order.
C15_TiersWriteDisjointPaths ==
    important_pages >= 0 =>
        /\ \A n, m \in DOMAIN rasterLog :
              rasterLog[n].page = rasterLog[m].page => n = m
        /\ ~(pc[1] = "compress" /\ pc[2] = "compress" /\ i[1] = i[2])
        /\ \A p \in DOMAIN files :
              /\ files[p].page = p[2]
              /\ files[p].dpi = (IF p[2] < Split THEN 200 ELSE 35)
              /\ files[p].quality = (IF p[2] < Split THEN 85 ELSE 25)
              /\ files[p].encodes <= 1
              /\ Cardinality(AllCalls(p)) <= 1
              /\ Cardinality({n \in AllCalls(p) : compressLog[n].ok}) = files[p].encodes
        /\ (pc[1] = "returned" /\ pc[2] = "returned") =>
              /\ SeqRange(first_pages) = {p \in DOMAIN files : p[2] < Split}
              /\ SeqRange(remaining_pages) = {p \in DOMAIN files : p[2] >= Split}
              /\ Len(first_pages) = Cardinality(SeqRange(first_pages))
              /\ Len(remaining_pages) = Cardinality(SeqRange(remaining_pages))
              /\ Ascending(first_pages)
              /\ Ascending(remaining_pages)
              /\ \A p \in DOMAIN files : files[p].encodes = 1 /\ ~files[p].partial
              /\ TierPages(1) = {pg \in 0..MaxPages + 1 : pg < Split}
              /\ TierPages(2) = {pg \in 0..MaxPages + 1 :
                                    Split <= pg /\ pg < total_pages}

C15_Witness ==
    /\ pc[1] = "returned"
    /\ pc[2] = "returned"
    /\ important_pages = 2
    /\ total_pages = 3
    /\ Len(rasterLog) = 3
    /\ rasterLog[1].tier = 2
    /\ rasterLog[2].tier = 1
    /\ Len(first_pages) = 2
    /\ Len(remaining_pages) = 1
====
